---- MODULE Spec2Model ----
(***************************************************************************)
(* Model of ai_summarize.py: job instances (operating-system processes)    *)
(* that each run main() on one PDF_FILE.  The processes share two files,   *)
(* processing.list (the identity set) and processing.list.lock (the lock   *)
(* marker); everything else (document, semaphore, tasks, usage counters)   *)
(* is private to a process.                                                *)
(*                                                                         *)
(* Granularity.  Across processes a step is one file-system call (exists,  *)
(* open 'x', open 'w', read, write, remove).  Inside a process asyncio     *)
(* runs one coroutine at a time, so a step of a task runs from one await   *)
(* that suspends (semaphore wait, the remote call, asyncio.sleep) to the   *)
(* next.                                                                   *)
(***************************************************************************)
EXTENDS Integers, Sequences, FiniteSets, TLC

\* ------------------------------------------------------------------ bounds
NumProcs == 2       \* job instances sharing the guard store
MaxPages == 2       \* pages (units) of a document
MaxAttempts == 2    \* largest retry budget an invocation is given
MaxSlots == 2       \* largest size of the admission limiter
MaxLoad == 5        \* largest pages + retry budget + limiter size of one run
MaxTokens == 1      \* largest token count a response reports

Procs == 1 .. NumProcs

\* ------------------------------------------------------- identities, lines
\* A string is a sequence of characters; " " stands for every whitespace
\* character str.strip() removes.  A line of the store is kept without its
\* terminating newline (add_line writes it, readlines() splits on it and
\* strip() drops it again).
RECURSIVE LStrip(_)
LStrip(s) ==
    IF s = <<>> THEN s
    ELSE IF Head(s) = " " THEN LStrip(Tail(s)) ELSE s

RECURSIVE RStrip(_)
RStrip(s) ==
    IF s = <<>> THEN s
    ELSE IF s[Len(s)] = " " THEN RStrip(SubSeq(s, 1, Len(s) - 1)) ELSE s

Strip(s) == RStrip(LStrip(s))

\* The command-line arguments (PDF_FILE) the instances are started with.
Idents == { <<" ", "a">>, <<"b", " ">> }

\* for l in lines: if l.strip() == line.strip(): exists = True
MutantExactMatch(ls, line) == \E i \in 1 .. Len(ls) : ls[i] = line
LineExists(ls, line) == \E i \in 1 .. Len(ls) : Strip(ls[i]) = Strip(line)

\* f.write(line.strip() + '\n') on a file opened 'a'
AppendLine(content, line) == Append(content, Strip(line))

\* for l in lines: if l.strip() != line.strip(): f.write(l)
MutantDropFirstOnly(ls, line) ==
    IF ~LineExists(ls, line) THEN ls
    ELSE LET i == CHOOSE i \in 1 .. Len(ls) :
                      /\ Strip(ls[i]) = Strip(line)
                      /\ \A j \in 1 .. i - 1 : Strip(ls[j]) # Strip(line)
         IN SubSeq(ls, 1, i - 1) \o SubSeq(ls, i + 1, Len(ls))
KeepOthers(ls, line) == SelectSeq(ls, LAMBDA l : Strip(l) # Strip(line))

\* ------------------------------------------------------------------- state
VARIABLES
    lockFile,     \* the lock marker processing.list.lock exists
    storeExists,  \* processing.list exists
    store,        \* the lines of processing.list
    pc,           \* where each instance is in main()
    ident,        \* PDF_FILE of each instance
    lines,        \* the local `lines` of check_exists / remove_line
    exists,       \* the local `exists` of check_exists
    document,     \* the pages read_document returns
    cap,          \* the size the semaphore is created with
    budget,       \* the retry argument of the three invocations
    apiUsages,    \* the usage objects the remote service may attach
    sem,          \* free slots of the instance's semaphore
    tasks,        \* the coroutines of the stage that is running
    results,      \* main's `results`
    sections,     \* main's `sections`
    gathered,     \* main's `gathered_sections`
    merged,       \* main's `merged_content`
    emitted,      \* what main has printed
    usage,        \* the Usage singleton of the instance
    called        \* the instance has issued a remote call

guardVars == <<lockFile, storeExists, store, lines, exists>>
inputVars == <<ident, document, cap, budget, apiUsages>>
pipeVars == <<sem, tasks, results, sections, gathered, merged, emitted, usage, called>>
vars == <<pc, guardVars, inputVars, pipeVars>>


\* ------------------------------------------------ StorageWithLock: the lock
LockPcs == {"chk_lock", "add_lock", "rm_lock"}
WaitPcs == {"chk_wait", "add_wait", "rm_wait"}
\* Between a successful _lock() and the matching _unlock().
HeldPcs == {"chk_read", "chk_unlock", "add_write", "add_unlock",
            "rm_read", "rm_trunc", "rm_write", "rm_unlock"}

WaitOf(l) == CASE l = "chk_lock" -> "chk_wait"
               [] l = "add_lock" -> "add_wait"
               [] l = "rm_lock" -> "rm_wait"
MutantKeepsWaiting(w) == w
LockOf(w) == CASE w = "chk_wait" -> "chk_lock"
               [] w = "add_wait" -> "add_lock"
               [] w = "rm_wait" -> "rm_lock"
Locked(l) == CASE l = "chk_lock" -> "chk_read"
               [] l = "add_lock" -> "add_write"
               [] l = "rm_lock" -> "rm_read"

\* open(self.lock_file, 'x') succeeds iff the file does not exist.
MutantOpenAnyway(marker) == TRUE
OpenExclusive(marker) == ~marker

\* StorageWithLock('processing.list'): os.path.exists(self.path)
StorageInit(p) ==
    /\ pc[p] = "init"
    /\ pc' = [pc EXCEPT ![p] = IF storeExists THEN "chk_lock" ELSE "create"]
    /\ UNCHANGED <<guardVars, inputVars, pipeVars>>

\* open(self.path, 'w').close(): creates the file, or empties it.
StorageCreate(p) ==
    /\ pc[p] = "create"
    /\ storeExists' = TRUE
    /\ store' = <<>>
    /\ pc' = [pc EXCEPT ![p] = "chk_lock"]
    /\ UNCHANGED <<lockFile, lines, exists, inputVars, pipeVars>>

\* _lock: the marker is created.
LockCreate(p) ==
    /\ pc[p] \in LockPcs
    /\ OpenExclusive(lockFile)
    /\ lockFile' = TRUE
    /\ pc' = [pc EXCEPT ![p] = Locked(pc[p])]
    /\ UNCHANGED <<storeExists, store, lines, exists, inputVars, pipeVars>>

\* _lock: FileExistsError, on to _wait_for_lock.
LockConflict(p) ==
    /\ pc[p] \in LockPcs
    /\ ~OpenExclusive(lockFile)
    /\ pc' = [pc EXCEPT ![p] = WaitOf(pc[p])]
    /\ UNCHANGED <<guardVars, inputVars, pipeVars>>

\* _wait_for_lock: the marker is still there, asyncio.sleep(0.1).
WaitPoll(p) ==
    /\ pc[p] \in WaitPcs
    /\ lockFile
    /\ UNCHANGED vars

\* _wait_for_lock: the marker is gone, back to open 'x'.
WaitOver(p) ==
    /\ pc[p] \in WaitPcs
    /\ ~lockFile
    /\ pc' = [pc EXCEPT ![p] = LockOf(pc[p])]
    /\ UNCHANGED <<guardVars, inputVars, pipeVars>>

\* --------------------------------- StorageWithLock: the three operations
\* check_exists opens the store 'r': its content stays what it was.
MutantCheckDedups(content, line) ==
    IF LineExists(content, line) THEN AppendLine(KeepOthers(content, line), line) ELSE content
ContentAfterCheck(content, line) == content

\* check_exists: readlines() and the scan.
CheckRead(p) ==
    /\ pc[p] = "chk_read"
    /\ lines' = [lines EXCEPT ![p] = store]
    /\ exists' = [exists EXCEPT ![p] = LineExists(store, ident[p])]
    /\ store' = ContentAfterCheck(store, ident[p])
    /\ pc' = [pc EXCEPT ![p] = "chk_unlock"]
    /\ UNCHANGED <<lockFile, storeExists, inputVars, pipeVars>>

\* main: what follows check_exists.
MutantAdmitAlways(found) == "add_lock"
AfterCheck(found) == IF found THEN "aborted" ELSE "add_lock"

\* check_exists: _unlock and return; main raises ValueError or goes on to
\* add_line.
CheckReturn(p) ==
    /\ pc[p] = "chk_unlock"
    /\ lockFile' = FALSE
    /\ lines' = [lines EXCEPT ![p] = <<>>]
    /\ pc' = [pc EXCEPT ![p] = AfterCheck(exists[p])]
    /\ UNCHANGED <<storeExists, store, exists, inputVars, pipeVars>>

\* add_line: the append.
AddWrite(p) ==
    /\ pc[p] = "add_write"
    /\ store' = AppendLine(store, ident[p])
    /\ storeExists' = TRUE
    /\ pc' = [pc EXCEPT ![p] = "add_unlock"]
    /\ UNCHANGED <<lockFile, lines, exists, inputVars, pipeVars>>

\* add_line: _unlock and return.
AddReturn(p) ==
    /\ pc[p] = "add_unlock"
    /\ lockFile' = FALSE
    /\ pc' = [pc EXCEPT ![p] = "read"]
    /\ UNCHANGED <<storeExists, store, lines, exists, inputVars, pipeVars>>

\* remove_line: readlines().
RemoveRead(p) ==
    /\ pc[p] = "rm_read"
    /\ lines' = [lines EXCEPT ![p] = store]
    /\ pc' = [pc EXCEPT ![p] = "rm_trunc"]
    /\ UNCHANGED <<lockFile, storeExists, store, exists, inputVars, pipeVars>>

\* remove_line: open(self.path, 'w') empties the file.
RemoveTruncate(p) ==
    /\ pc[p] = "rm_trunc"
    /\ store' = <<>>
    /\ storeExists' = TRUE
    /\ pc' = [pc EXCEPT ![p] = "rm_write"]
    /\ UNCHANGED <<lockFile, lines, exists, inputVars, pipeVars>>

\* remove_line: the kept lines are written back.
RemoveWrite(p) ==
    /\ pc[p] = "rm_write"
    /\ store' = KeepOthers(lines[p], ident[p])
    /\ pc' = [pc EXCEPT ![p] = "rm_unlock"]
    /\ UNCHANGED <<lockFile, storeExists, lines, exists, inputVars, pipeVars>>

\* remove_line: _unlock and return; main returns.
RemoveReturn(p) ==
    /\ pc[p] = "rm_unlock"
    /\ lockFile' = FALSE
    /\ lines' = [lines EXCEPT ![p] = <<>>]
    /\ pc' = [pc EXCEPT ![p] = "done"]
    /\ UNCHANGED <<storeExists, store, exists, inputVars, pipeVars>>


\* ------------------------------------------------------- texts and records
\* A text is a sequence of tokens; '' is the empty sequence.
EmptyText == <<>>

\* The keys summarize_content returns, in the order of its dict literal.
TopicSeq == <<"introduction", "method", "contribution", "experiment", "discussion">>
Topics == { TopicSeq[i] : i \in 1 .. Len(TopicSeq) }

\* The pages of the documents read_document may return.
PageNames == <<"p1", "p2", "p3", "p4">>
Documents == { SubSeq(PageNames, 1, n) : n \in 0 .. MaxPages }

\* The JSON objects the remote service may answer for page u: two known
\* keys, three known keys missing and one key summarize_content does not know.
PageDicts(u) ==
    { ("introduction" :> <<u, "introduction">>) @@ ("method" :> <<u, "method">>)
        @@ ("keywords" :> <<u, "keywords">>) }

\* The text the remote service answers to a gather_content request.
GatherText(key) == <<"gathered", key>>
\* The text the remote service answers to the merge_sections request.
MergedText == <<"merged">>

\* {'introduction': summary_dict.get('introduction', ''), ...}
MutantKeepAll(d) == [t \in Topics \cup DOMAIN d |-> IF t \in DOMAIN d THEN d[t] ELSE EmptyText]
ToRecord(d) == [t \in Topics |-> IF t \in DOMAIN d THEN d[t] ELSE EmptyText]

\* The value returned once the retries are exhausted.
EmptyRecord == [t \in Topics |-> EmptyText]
EmptyValue(kind) == IF kind = "summarize" THEN EmptyRecord ELSE EmptyText

\* ------------------------------------------------------------------- Usage
NoUsage == [present |-> FALSE, prompt |-> 0, completion |-> 0, hasCached |-> FALSE, cached |-> 0]
ZeroUsage == [input |-> 0, output |-> 0, cached |-> 0]

\* The response.usage values of the remote service: None, or prompt_tokens and
\* completion_tokens with prompt_tokens_details (or its cached_tokens) None
\* or a count.
UsageObjects ==
    {NoUsage} \cup
    { r \in [present : {TRUE}, prompt : 0 .. MaxTokens, completion : 0 .. MaxTokens,
             hasCached : BOOLEAN, cached : 0 .. MaxTokens] : r.hasCached \/ r.cached = 0 }

\* Usage.update_usage
MutantCachedFromOutput(u, r) ==
    IF ~r.present THEN u
    ELSE LET a == [u EXCEPT !.output = @ + r.completion, !.input = @ + r.prompt]
         IN IF r.hasCached
            THEN [a EXCEPT !.output = @ - r.cached, !.cached = @ + r.cached]
            ELSE a
MutantCountTwice(u, r) ==
    IF ~r.present THEN u
    ELSE [input |-> u.input + 2 * r.prompt, output |-> u.output + 2 * r.completion,
          cached |-> u.cached]
UpdateUsage(u, r) ==
    IF ~r.present THEN u
    ELSE LET a == [u EXCEPT !.output = @ + r.completion, !.input = @ + r.prompt]
         IN IF r.hasCached
            THEN [a EXCEPT !.input = @ - r.cached, !.cached = @ + r.cached]
            ELSE a

\* ----------------------------------------------------- the three coroutines
\* summarize_content, gather_content and merge_sections share one shape: take
\* a slot of the semaphore, then loop while retry > 0.
KindAt(stage) == CASE stage = "map" -> "summarize"
                   [] stage = "gather" -> "gather"
                   [] stage = "merge" -> "merge"
StagePcs == {"map", "gather", "merge"}

\* exc is the exception the except branch has caught: none, one raised by the
\* remote call ("api") or one raised after update_usage ("parse").
NewTask(kind, retry) ==
    [st |-> "waiting", retry |-> retry, att |-> 0, exc |-> "none", res |-> EmptyValue(kind)]

\* while retry > 0
MutantRetryOnceMore(r) == r >= 0
RetryAgain(r) == r > 0

\* Semaphore.acquire does not wait iff a slot is free.
MutantNoLimit(s) == TRUE
SlotFree(s) == s > 0

\* Semaphore.release, at the exit of `async with sem`.
MutantLeakSlot(s) == s
Released(s) == s + 1

\* The task holds a slot of the semaphore.
Holding(task) == task.st \in {"calling", "sleeping"}

\* The loop head: the next remote call is issued, or the empty value returned.
EnterLoop(task, kind) ==
    IF RetryAgain(task.retry)
    THEN [task EXCEPT !.st = "calling", !.att = @ + 1]
    ELSE [task EXCEPT !.st = "done", !.res = EmptyValue(kind)]

\* What a well-formed answer to task t of instance p parses to.
Answers(p, t) ==
    CASE pc[p] = "map" -> { ToRecord(d) : d \in PageDicts(document[p][t]) }
      [] pc[p] = "gather" -> { GatherText(sections[p][t].key) }
      [] pc[p] = "merge" -> { MergedText }

\* `async with sem`: a slot is taken and the loop entered.
Acquire(p, t) ==
    /\ pc[p] \in StagePcs
    /\ tasks[p][t].st = "waiting"
    /\ SlotFree(sem[p])
    /\ LET next == EnterLoop(tasks[p][t], KindAt(pc[p]))
       IN /\ tasks' = [tasks EXCEPT ![p][t] = next]
          /\ sem' = [sem EXCEPT ![p] = IF Holding(next) THEN @ - 1 ELSE Released(@ - 1)]
          /\ called' = [called EXCEPT ![p] = @ \/ Holding(next)]
    /\ UNCHANGED <<pc, guardVars, inputVars, results, sections, gathered, merged, emitted, usage>>

\* The remote call returns an answer that parses: usage is counted, the
\* result returned and the slot released.
RespondOk(p, t) ==
    /\ pc[p] \in StagePcs
    /\ tasks[p][t].st = "calling"
    /\ \E r \in apiUsages, v \in Answers(p, t) :
          /\ usage' = [usage EXCEPT ![p] = UpdateUsage(@, r)]
          /\ tasks' = [tasks EXCEPT ![p][t] = [@ EXCEPT !.st = "done", !.res = v]]
    /\ sem' = [sem EXCEPT ![p] = Released(@)]
    /\ UNCHANGED <<pc, guardVars, inputVars, results, sections, gathered, merged, emitted, called>>

\* The remote call returns an answer that does not parse (json.loads raises,
\* the object is no dict, the content is None): usage is counted, then the
\* except branch sleeps.
RespondBad(p, t) ==
    /\ pc[p] \in StagePcs
    /\ tasks[p][t].st = "calling"
    /\ \E r \in apiUsages : usage' = [usage EXCEPT ![p] = UpdateUsage(@, r)]
    /\ tasks' = [tasks EXCEPT ![p][t] = [@ EXCEPT !.st = "sleeping", !.exc = "parse"]]
    /\ UNCHANGED <<pc, guardVars, inputVars, sem, results, sections, gathered, merged, emitted, called>>

\* The remote call raises: the except branch sleeps.
RespondRaise(p, t) ==
    /\ pc[p] \in StagePcs
    /\ tasks[p][t].st = "calling"
    /\ tasks' = [tasks EXCEPT ![p][t] = [@ EXCEPT !.st = "sleeping", !.exc = "api"]]
    /\ UNCHANGED <<pc, guardVars, inputVars, sem, results, sections, gathered, merged, emitted, usage, called>>

\* asyncio.sleep(1) is over: retry -= 1 and back to the loop head.
Wake(p, t) ==
    /\ pc[p] \in StagePcs
    /\ tasks[p][t].st = "sleeping"
    /\ LET next == EnterLoop([tasks[p][t] EXCEPT !.retry = @ - 1, !.exc = "none"], KindAt(pc[p]))
       IN /\ tasks' = [tasks EXCEPT ![p][t] = next]
          /\ sem' = [sem EXCEPT ![p] = IF Holding(next) THEN @ ELSE Released(@)]
    /\ UNCHANGED <<pc, guardVars, inputVars, results, sections, gathered, merged, emitted, usage, called>>


\* -------------------------------------------------------------------- main
\* A Python dict with string keys whose order matters (sections,
\* gathered_sections) is a sequence of [key, val] entries in insertion order.
MutantNeverHasKey(d, k) == FALSE
HasKey(d, k) == \E i \in 1 .. Len(d) : d[i].key = k
Get(d, k) == d[CHOOSE i \in 1 .. Len(d) : d[i].key = k].val
Keys(d) == { d[i].key : i \in 1 .. Len(d) }

\* if key not in sections: sections[key] = []; sections[key].append(value)
AddValue(sec, k, v) ==
    LET s0 == IF HasKey(sec, k) THEN sec ELSE Append(sec, [key |-> k, val |-> <<>>])
    IN [i \in 1 .. Len(s0) |->
          IF s0[i].key = k THEN [key |-> k, val |-> Append(s0[i].val, v)] ELSE s0[i]]

\* for key, value in result.items(): ...    (keys j .. 5 of one record)
\* The accumulator is bound by a quantifier so that it is evaluated once.
RECURSIVE AddRecord(_, _, _)
AddRecord(sec, rec, j) ==
    IF j > Len(TopicSeq) THEN sec
    ELSE CHOOSE r \in { AddRecord(s, rec, j + 1) :
                          s \in {AddValue(sec, TopicSeq[j], rec[TopicSeq[j]])} } : TRUE

\* for i, result in enumerate(results): ...    (records i .. N)
RECURSIVE AddRecords(_, _, _)
AddRecords(sec, rs, i) ==
    IF i > Len(rs) THEN sec
    ELSE CHOOSE r \in { AddRecords(s, rs, i + 1) : s \in {AddRecord(sec, rs[i], 1)} } : TRUE

MutantTransposeNewestFirst(rs) ==
    AddRecords(<<>>, [i \in 1 .. Len(rs) |-> rs[Len(rs) + 1 - i]], 1)
Transpose(rs) == AddRecords(<<>>, rs, 1)

\* asyncio.gather returns the results in the order of its arguments.
MutantCollectReversed(ts) == [i \in 1 .. Len(ts) |-> ts[Len(ts) + 1 - i].res]
Collect(ts) == [i \in 1 .. Len(ts) |-> ts[i].res]

MutantAnyDone(ts) == ts = <<>> \/ \E i \in 1 .. Len(ts) : ts[i].st = "done"
AllDone(ts) == \A i \in 1 .. Len(ts) : ts[i].st = "done"

\* read_document returns; the semaphore is created and one summarize_content
\* coroutine per page handed to asyncio.gather.
ReadDocument(p) ==
    /\ pc[p] = "read"
    /\ sem' = [sem EXCEPT ![p] = cap]
    /\ tasks' = [tasks EXCEPT ![p] =
                    [i \in 1 .. Len(document[p]) |-> NewTask("summarize", budget)]]
    /\ pc' = [pc EXCEPT ![p] = "map"]
    /\ UNCHANGED <<guardVars, inputVars, results, sections, gathered, merged, emitted, usage, called>>

\* read_document raises (pymupdf cannot open the file): main ends with the
\* exception.
ReadFail(p) ==
    /\ pc[p] = "read"
    /\ pc' = [pc EXCEPT ![p] = "failed"]
    /\ UNCHANGED <<guardVars, inputVars, pipeVars>>

\* The first gather returns: results, the transposition into sections, and
\* one gather_content coroutine per key of sections.
MapFinish(p) ==
    /\ pc[p] = "map"
    /\ AllDone(tasks[p])
    /\ LET rs == Collect(tasks[p])
           sec == Transpose(rs)
       IN /\ results' = [results EXCEPT ![p] = rs]
          /\ sections' = [sections EXCEPT ![p] = sec]
          /\ tasks' = [tasks EXCEPT ![p] =
                          [j \in 1 .. Len(sec) |-> NewTask("gather", budget)]]
    /\ pc' = [pc EXCEPT ![p] = "gather"]
    /\ UNCHANGED <<guardVars, inputVars, sem, gathered, merged, emitted, usage, called>>

\* The second gather returns: gathered_sections = zip(sections, texts), and
\* merge_sections is called.
GatherFinish(p) ==
    /\ pc[p] = "gather"
    /\ AllDone(tasks[p])
    /\ LET texts == Collect(tasks[p])
       IN gathered' = [gathered EXCEPT ![p] =
              [j \in 1 .. Len(sections[p]) |-> [key |-> sections[p][j].key, val |-> texts[j]]]]
    /\ tasks' = [tasks EXCEPT ![p] = <<NewTask("merge", budget)>>]
    /\ pc' = [pc EXCEPT ![p] = "merge"]
    /\ UNCHANGED <<guardVars, inputVars, sem, results, sections, merged, emitted, usage, called>>

\* merge_sections returns: the prints, then on to remove_line.
MergeFinish(p) ==
    /\ pc[p] = "merge"
    /\ AllDone(tasks[p])
    /\ merged' = [merged EXCEPT ![p] = tasks[p][1].res]
    /\ emitted' = [emitted EXCEPT ![p] = <<[text |-> tasks[p][1].res, usage |-> usage[p]]>>]
    /\ tasks' = [tasks EXCEPT ![p] = <<>>]
    /\ pc' = [pc EXCEPT ![p] = "rm_lock"]
    /\ UNCHANGED <<guardVars, inputVars, sem, results, sections, gathered, usage, called>>

\* main has returned or raised: the instance takes no further step.
TerminalPcs == {"done", "aborted", "failed"}

\* ---------------------------------------------------------- specifications
\* The state of an instance before main() runs.
Fresh ==
    /\ lines = [p \in Procs |-> <<>>]
    /\ exists = [p \in Procs |-> FALSE]
    /\ sem = [p \in Procs |-> 0]
    /\ tasks = [p \in Procs |-> <<>>]
    /\ results = [p \in Procs |-> <<>>]
    /\ sections = [p \in Procs |-> <<>>]
    /\ gathered = [p \in Procs |-> <<>>]
    /\ merged = [p \in Procs |-> EmptyText]
    /\ emitted = [p \in Procs |-> <<>>]
    /\ usage = [p \in Procs |-> ZeroUsage]
    /\ called = [p \in Procs |-> FALSE]

\* Spec: NumProcs instances started on any identities, in any interleaving.
\* Their documents have no page, so that their pipelines (which share nothing)
\* stay small: one merge_sections call each.
Init ==
    /\ lockFile = FALSE
    /\ storeExists \in BOOLEAN
    /\ store = <<>>
    /\ pc = [p \in Procs |-> "init"]
    /\ ident \in [Procs -> Idents]
    /\ document = [p \in Procs |-> <<>>]
    /\ cap = 1
    /\ budget = 1
    /\ apiUsages = {NoUsage}
    /\ Fresh

GuardStep(p) ==
    \/ StorageInit(p)
    \/ StorageCreate(p)
    \/ LockCreate(p)
    \/ CheckRead(p)
    \/ CheckReturn(p)
    \/ AddWrite(p)
    \/ AddReturn(p)
    \/ RemoveRead(p)
    \/ RemoveTruncate(p)
    \/ RemoveWrite(p)
    \/ RemoveReturn(p)

ContendStep(p) ==
    \/ LockConflict(p)
    \/ WaitPoll(p)
    \/ WaitOver(p)

PipeStep(p) ==
    \/ ReadDocument(p)
    \/ ReadFail(p)
    \/ MapFinish(p)
    \/ GatherFinish(p)
    \/ MergeFinish(p)
    \/ \E t \in 1 .. Len(tasks[p]) : Acquire(p, t)
    \/ \E t \in 1 .. Len(tasks[p]) : RespondOk(p, t)
    \/ \E t \in 1 .. Len(tasks[p]) : RespondBad(p, t)
    \/ \E t \in 1 .. Len(tasks[p]) : RespondRaise(p, t)
    \/ \E t \in 1 .. Len(tasks[p]) : Wake(p, t)

Next == \E p \in Procs : GuardStep(p) \/ ContendStep(p) \/ PipeStep(p)

Spec == Init /\ [][Next]_vars

\* SpecSeq: the same instances, with the guard operations executed one after
\* another: an instance is inside a guard operation from the creation of its
\* StorageWithLock to the return of add_line (or the ValueError), and from the
\* call of remove_line to its return; no two instances are inside at once.
GuardPcs == {"create"} \cup LockPcs \cup WaitPcs \cup HeldPcs
Alone(p) == \A q \in Procs \ {p} : pc[q] \notin GuardPcs

NextSeq ==
    \E p \in Procs :
        \/ Alone(p) /\ GuardStep(p)
        \/ ReadDocument(p)
        \/ ReadFail(p)
        \/ MapFinish(p)
        \/ GatherFinish(p)
        \/ Alone(p) /\ MergeFinish(p)
        \/ \E t \in 1 .. Len(tasks[p]) : Acquire(p, t)
        \/ \E t \in 1 .. Len(tasks[p]) : RespondOk(p, t)
        \/ \E t \in 1 .. Len(tasks[p]) : RespondBad(p, t)
        \/ \E t \in 1 .. Len(tasks[p]) : RespondRaise(p, t)
        \/ \E t \in 1 .. Len(tasks[p]) : Wake(p, t)

SpecSeq == Init /\ [][NextSeq]_vars

\* SpecRun: one instance alone, on any document, with any semaphore size and
\* retry budget.  Other instances have left lines in the store: one of another
\* document, or also lines of this document (then the instance is denied).
RunStores == { << <<"b">> >>, << <<"b">>, <<"a">>, <<"a">> >> }

InitRun ==
    /\ lockFile = FALSE
    /\ storeExists = TRUE
    /\ store \in RunStores
    /\ pc = [p \in Procs |-> IF p = 1 THEN "init" ELSE "off"]
    /\ ident = [p \in Procs |-> <<" ", "a">>]
    /\ document \in [Procs -> Documents]
    /\ \A p \in Procs \ {1} : document[p] = <<>>
    /\ cap \in 1 .. MaxSlots
    /\ budget \in 0 .. MaxAttempts
    /\ Len(document[1]) + budget + cap <= MaxLoad
    /\ apiUsages = {NoUsage}
    /\ Fresh

SpecRun == InitRun /\ [][NextSeq]_vars

\* SpecRunFair: the runs of SpecRun below the largest load, with fairness:
\* the event loop runs every coroutine that can run and the remote service
\* answers or fails every call.
InitLive == InitRun /\ Len(document[1]) + budget + cap < MaxLoad

SpecRunFair == InitLive /\ [][NextSeq]_vars /\ WF_vars(NextSeq)

\* The process of instance p stops (is killed, the machine goes down) inside
\* check_exists, add_line or remove_line: it takes no further step, and the
\* files stay as they are.
Crash(p) ==
    /\ pc[p] \in LockPcs \cup WaitPcs \cup HeldPcs
    /\ pc' = [pc EXCEPT ![p] = "crashed"]
    /\ UNCHANGED <<guardVars, inputVars, pipeVars>>

\* The steps of instance p while its process runs.
Step(p) == GuardStep(p) \/ ContendStep(p) \/ PipeStep(p)

\* SpecCrash: the instances of Spec, any of which may stop inside a guard
\* operation.  A process that has not stopped keeps running: the operating
\* system schedules it and its event loop runs the coroutine that can run.
NextCrash ==
    \/ Next
    \/ \E p \in Procs : Crash(p)

SpecCrash == Init /\ [][NextCrash]_vars /\ \A p \in Procs : WF_vars(Step(p))

\* The run in slot p has ended and the same command is started again: a new
\* process, with fresh locals, on the same PDF_FILE and the same two files.
Restart(p) ==
    /\ pc[p] \in TerminalPcs
    /\ pc' = [pc EXCEPT ![p] = "init"]
    /\ lines' = [lines EXCEPT ![p] = <<>>]
    /\ exists' = [exists EXCEPT ![p] = FALSE]
    /\ sem' = [sem EXCEPT ![p] = 0]
    /\ tasks' = [tasks EXCEPT ![p] = <<>>]
    /\ results' = [results EXCEPT ![p] = <<>>]
    /\ sections' = [sections EXCEPT ![p] = <<>>]
    /\ gathered' = [gathered EXCEPT ![p] = <<>>]
    /\ merged' = [merged EXCEPT ![p] = EmptyText]
    /\ emitted' = [emitted EXCEPT ![p] = <<>>]
    /\ usage' = [usage EXCEPT ![p] = ZeroUsage]
    /\ called' = [called EXCEPT ![p] = FALSE]
    /\ UNCHANGED <<lockFile, storeExists, store, inputVars>>

\* SpecAgain: the instances of Spec that are all on one PDF_FILE, each
\* followed by any number of further runs of the same command; every running
\* process keeps running, and no process stops inside a guard operation.
InitAgain == Init /\ \A p \in Procs : ident[p] = <<" ", "a">>

NextAgain ==
    \/ Next
    \/ \E p \in Procs : Restart(p)

SpecAgain == InitAgain /\ [][NextAgain]_vars /\ \A p \in Procs : WF_vars(Step(p))

\* SpecUsage: one admitted instance, on a document without pages with any
\* retry budget or on a document of one page with a budget of one, where the
\* remote service attaches the usage object r to each response, for any r.
InitUsage ==
    /\ lockFile = FALSE
    /\ storeExists = TRUE
    /\ store = << <<"b">> >>
    /\ pc = [p \in Procs |-> IF p = 1 THEN "init" ELSE "off"]
    /\ ident = [p \in Procs |-> <<" ", "a">>]
    /\ document \in [Procs -> Documents]
    /\ \A p \in Procs \ {1} : document[p] = <<>>
    /\ Len(document[1]) <= 1
    /\ cap = 1
    /\ budget \in 1 .. MaxAttempts
    /\ Len(document[1]) = 0 \/ budget = 1
    /\ apiUsages \in { {r} : r \in UsageObjects }
    /\ Fresh

SpecUsage == InitUsage /\ [][NextSeq]_vars

\* ------------------------------------------------------------------ claims
SameDocument(p, q) == Strip(ident[p]) = Strip(ident[q])

\* The instance has inserted its identity and its release has not begun to
\* rewrite the store.
InsertedPcs == {"add_unlock", "read", "map", "gather", "merge", "rm_lock", "rm_wait", "rm_read"}

\* C1: at most one running instance at a time is between its admission and its
\* release for the same document identity.
C1_OneAdmittedPerIdentity ==
    \A p, q \in Procs :
        (p # q /\ pc[p] \in InsertedPcs /\ pc[q] \in InsertedPcs) => ~SameDocument(p, q)

\* C2: at most one instance holds the lock marker, the marker exists while it
\* is held, and an instance about to read or write the store in check_exists,
\* add_line or remove_line is the one holder.
AccessPcs == {"chk_read", "add_write", "rm_read", "rm_trunc", "rm_write"}
C2_LockExclusive ==
    /\ Cardinality({p \in Procs : pc[p] \in HeldPcs}) <= 1
    /\ (\E p \in Procs : pc[p] \in HeldPcs) => lockFile
    /\ \A p \in Procs :
          pc[p] \in AccessPcs => lockFile /\ \A q \in Procs \ {p} : pc[q] \notin HeldPcs

\* C2 witness: one instance holds the marker while another polls for it.
C2_Witness ==
    \E p, q \in Procs : pc[p] \in AccessPcs /\ pc[q] \in WaitPcs

\* The instance has been admitted and has not completed its release (an
\* instance that failed after its admission never releases).
Outstanding(p) == pc[p] \in InsertedPcs \cup {"rm_trunc", "failed"}

\* C3: with guard operations executed one after another, the check of an
\* admission attempt finds the identity iff an earlier admission for the same
\* document is not yet released, and the attempt goes on to add_line only
\* when there is none.
C3_SecondAdmissionDenied ==
    \A q \in Procs :
        /\ pc[q] = "chk_unlock" =>
              (exists[q] <=> \E p \in Procs \ {q} : Outstanding(p) /\ SameDocument(p, q))
        /\ pc[q] \in {"add_lock", "add_write"} =>
              ~\E p \in Procs \ {q} : Outstanding(p) /\ SameDocument(p, q)

\* C3 witness: an instance was denied while another instance of the same
\* document was outstanding, and that one has since released.
C3_Witness ==
    \E p, q \in Procs :
        p # q /\ SameDocument(p, q) /\ pc[q] = "aborted" /\ pc[p] = "done"

\* C4: no step of an admission attempt up to its verdict, the raise of the
\* duplicate error included, changes the store or issues a remote call.
AttemptPcs == {"init", "create", "chk_lock", "chk_wait", "chk_read", "chk_unlock"}
C4_DeniedChangesNothing ==
    [][\A p \in Procs :
          (pc[p] \in AttemptPcs /\ pc'[p] # pc[p]) =>
              (store' = store /\ ~called'[p] /\ tasks'[p] = <<>>)]_vars

\* C4 witness: an instance was denied on a store that holds its identity.
C4_Witness ==
    \E p \in Procs : pc[p] = "aborted" /\ LineExists(store, ident[p]) /\ ~called[p]


\* The tasks of instance p that hold a slot of its semaphore.
Holders(p) == { t \in 1 .. Len(tasks[p]) : Holding(tasks[p][t]) }
\* The task returned because its retries were exhausted / with a result.
Exhausted(task) == task.st = "done" /\ task.retry = 0
Succeeded(task) == task.st = "done" /\ task.retry > 0

\* C5: an invocation with retry budget k never issues more than k remote
\* calls; while it runs and when it returns a result it has issued exactly one
\* call per retry used up plus the current one (so none after the success);
\* when its retries are exhausted it has issued exactly k calls and returns
\* the empty value of its kind; and no instance ends with an error of a task.
C5_ExactlyKAttempts ==
    \A p \in Procs :
        /\ \A t \in 1 .. Len(tasks[p]) :
              LET x == tasks[p][t]
              IN /\ x.att <= budget
                 /\ x.st = "waiting" => x.att = 0
                 /\ (Holding(x) \/ Succeeded(x)) => x.att = budget - x.retry + 1
                 /\ Exhausted(x) => x.att = budget /\ x.res = EmptyValue(KindAt(pc[p]))
        /\ pc[p] = "failed" => ~called[p]

\* C5 witness: a gather_content task returned the empty text after two
\* failed calls on a budget of two.
C5_Witness ==
    \E p \in Procs :
        /\ pc[p] = "gather"
        /\ budget = 2
        /\ \E t \in 1 .. Len(tasks[p]) :
              Exhausted(tasks[p][t]) /\ tasks[p][t].att = 2 /\ tasks[p][t].res = EmptyText

\* C6: the tasks that hold a slot (a remote call in flight, or asleep between
\* two retries) are never more than the size of the semaphore.
C6_AtMostCapHolders ==
    \A p \in Procs : pc[p] \in StagePcs => Cardinality(Holders(p)) <= cap

\* C6 witness: more tasks than slots, every slot held, one holder asleep
\* between retries and another task waiting for a slot.
C6_Witness ==
    \E p \in Procs :
        /\ Len(tasks[p]) > cap
        /\ Cardinality(Holders(p)) = cap
        /\ \E t \in Holders(p) : tasks[p][t].st = "sleeping"
        /\ \E t \in 1 .. Len(tasks[p]) : tasks[p][t].st = "waiting"

\* The instance has created its semaphore.
SemPcs == StagePcs \cup {"rm_lock", "rm_wait", "rm_read", "rm_trunc", "rm_write", "rm_unlock", "done"}

\* C7: the free slots are the size of the semaphore less the tasks that hold
\* one, never more than the size, and all of them once every task has returned.
C7_SlotsReleased ==
    \A p \in Procs :
        pc[p] \in SemPcs =>
            /\ sem[p] = cap - Cardinality(Holders(p))
            /\ sem[p] <= cap
            /\ AllDone(tasks[p]) => sem[p] = cap

\* C7 witness: every gather_content task has returned, one with a result and
\* one on exhaustion, and every slot is free.
C7_Witness ==
    \E p \in Procs :
        /\ pc[p] = "gather"
        /\ AllDone(tasks[p])
        /\ \E t \in 1 .. Len(tasks[p]) : Exhausted(tasks[p][t]) /\ tasks[p][t].att > 0
        /\ \E t \in 1 .. Len(tasks[p]) : Succeeded(tasks[p][t])
        /\ sem[p] = cap

\* The first gather of main has returned.
PostMapPcs == SemPcs \ {"map"}

\* The record is what summarize_content may return for page u: every known
\* topic empty, or the known topics of an answer for u with the topics the
\* answer omits empty.
RecordOf(rec, u) ==
    \/ \A t \in Topics : rec[t] = EmptyText
    \/ \E d \in PageDicts(u) :
          \A t \in Topics : rec[t] = IF t \in DOMAIN d THEN d[t] ELSE EmptyText

\* C8: results holds one record per page, the i-th for the i-th page, each
\* with exactly the known topics as keys.
C8_OneRecordPerUnit ==
    \A p \in Procs :
        pc[p] \in PostMapPcs =>
            /\ Len(results[p]) = Len(document[p])
            /\ \A i \in 1 .. Len(results[p]) :
                  /\ DOMAIN results[p][i] = Topics
                  /\ RecordOf(results[p][i], document[p][i])

\* C8 witness: two pages, the first summarized and the second exhausted.
C8_Witness ==
    \E p \in Procs :
        /\ pc[p] \in PostMapPcs
        /\ Len(document[p]) = 2
        /\ results[p][1]["introduction"] = <<document[p][1], "introduction">>
        /\ results[p][1]["discussion"] = EmptyText
        /\ results[p][2] = EmptyRecord

\* C9 as stated: for every sequence of records sections has every topic, with
\* one value per record, the i-th being that of the i-th record.
C9_TransposeEveryTopic ==
    \A p \in Procs :
        pc[p] \in PostMapPcs =>
            \A t \in Topics :
                /\ HasKey(sections[p], t)
                /\ Len(Get(sections[p], t)) = Len(results[p])
                /\ \A i \in 1 .. Len(results[p]) : Get(sections[p], t)[i] = results[p][i][t]

\* C9 amended: that holds for every non-empty sequence of records (and
\* sections has no other key, and each key once); for the empty sequence
\* sections has no key at all.
C9_TransposeNonEmpty ==
    \A p \in Procs :
        pc[p] \in PostMapPcs =>
            IF Len(results[p]) = 0
            THEN sections[p] = <<>>
            ELSE /\ Keys(sections[p]) = Topics
                 /\ Len(sections[p]) = Cardinality(Topics)
                 /\ \A t \in Topics :
                       /\ Len(Get(sections[p], t)) = Len(results[p])
                       /\ \A i \in 1 .. Len(results[p]) :
                             Get(sections[p], t)[i] = results[p][i][t]

\* C9 witness: two records that differ, transposed.
C9_Witness ==
    \E p \in Procs :
        /\ pc[p] \in PostMapPcs
        /\ Len(results[p]) = 2
        /\ results[p][1] # results[p][2]
        /\ Get(sections[p], "method") = <<results[p][1]["method"], results[p][2]["method"]>>


\* C10: an instance whose document has been read goes on, whatever the remote
\* calls do, to print a summary, to remove its identity from the store and to
\* return from main.
C10_RunCompletes ==
    \A p \in Procs :
        (pc[p] \in StagePcs) ~>
            (pc[p] = "done" /\ Len(emitted[p]) = 1 /\ ~LineExists(store, ident[p]))

\* C10 witness: every remote call of the run failed (the records of both pages
\* and the printed summary are empty) and the run has completed.
C10_Witness ==
    \E p \in Procs :
        /\ pc[p] = "done"
        /\ called[p]
        /\ Len(results[p]) = 2
        /\ \A i \in 1 .. Len(results[p]) : results[p][i] = EmptyRecord
        /\ \A j \in 1 .. Len(gathered[p]) : gathered[p][j].val = EmptyText
        /\ emitted[p] = <<[text |-> EmptyText, usage |-> ZeroUsage]>>
        /\ ~LineExists(store, ident[p])

\* --------------------------------------------------------- terminal states

\* Completed: the identity removed from the store and the summary printed.
Completed(p) == pc[p] = "done" /\ Len(emitted[p]) = 1 /\ ~LineExists(store, ident[p])
\* Aborted: admission denied, nothing printed and no remote call issued.
Aborted(p) == pc[p] = "aborted" /\ exists[p] /\ emitted[p] = <<>> /\ ~called[p]

\* C11: a run that has ended is Completed or Aborted; none has ended with its
\* identity inserted and not removed.
C11_TwoTerminalStates ==
    \A p \in Procs : pc[p] \in TerminalPcs => Completed(p) \/ Aborted(p)

\* ------------------------------------------------------------------- usage
\* C12 as stated: after every step the three counters are non-negative and
\* none is lower than before the step, whatever counts the responses report.
C12_CountersNeverDecrease ==
    [][\A p \in Procs :
          /\ usage'[p].input >= 0 /\ usage'[p].output >= 0 /\ usage'[p].cached >= 0
          /\ usage'[p].input >= usage[p].input
          /\ usage'[p].output >= usage[p].output
          /\ usage'[p].cached >= usage[p].cached]_vars

\* No response reports more cached tokens than prompt tokens.
CachedWithinPrompt == \A r \in apiUsages : r.cached <= r.prompt

\* C12 amended: the output and cached counters are non-negative and never
\* decrease; the input counter is non-negative and never decreases when no
\* response reports more cached tokens than prompt tokens.
C12_CountersNeverDecreaseWithinPrompt ==
    [][\A p \in Procs :
          /\ usage'[p].output >= 0 /\ usage'[p].cached >= 0
          /\ usage'[p].output >= usage[p].output
          /\ usage'[p].cached >= usage[p].cached
          /\ CachedWithinPrompt =>
                (usage'[p].input >= 0 /\ usage'[p].input >= usage[p].input)]_vars

\* C12 witness: two responses whose prompt was cached entirely have been
\* counted.
C12_Witness ==
    \E p \in Procs :
        /\ CachedWithinPrompt
        /\ usage[p].cached >= 2
        /\ usage[p].output >= 2
        /\ usage[p].input = 0

\* The counters u with the counts of the usage object r added once.
Counted(u, r) ==
    IF ~r.present THEN u
    ELSE [input |-> u.input + r.prompt - (IF r.hasCached THEN r.cached ELSE 0),
          output |-> u.output + r.completion,
          cached |-> u.cached + (IF r.hasCached THEN r.cached ELSE 0)]

\* Task t of instance p ends an attempt in this step: with a result, or in the
\* except branch.
Returns(p, t) ==
    pc'[p] = pc[p] /\ tasks[p][t].st = "calling" /\ tasks'[p][t].st = "done"
Fails(p, t) ==
    pc'[p] = pc[p] /\ tasks[p][t].st = "calling" /\ tasks'[p][t].st = "sleeping"

\* C13 as stated: the attempt that succeeds adds the reported counts once; an
\* attempt that fails and is retried leaves the counters unchanged; so does
\* every other step.
C13_CountedOnSuccessOnly ==
    [][\A p \in Procs :
          /\ \A t \in 1 .. Len(tasks[p]) :
                /\ Returns(p, t) => \E r \in apiUsages : usage'[p] = Counted(usage[p], r)
                /\ Fails(p, t) => usage'[p] = usage[p]
          /\ (\A t \in 1 .. Len(tasks[p]) : ~Returns(p, t) /\ ~Fails(p, t)) =>
                usage'[p] = usage[p]]_vars

\* C13 amended: an attempt whose remote call returned a response adds the
\* reported counts once, whether the attempt succeeds or fails after
\* update_usage; an attempt whose remote call raised leaves the counters
\* unchanged; so does every other step.
C13_CountedOnResponse ==
    [][\A p \in Procs :
          /\ \A t \in 1 .. Len(tasks[p]) :
                /\ Returns(p, t) => \E r \in apiUsages : usage'[p] = Counted(usage[p], r)
                /\ (Fails(p, t) /\ tasks'[p][t].exc = "parse") =>
                      \E r \in apiUsages : usage'[p] = Counted(usage[p], r)
                /\ (Fails(p, t) /\ tasks'[p][t].exc = "api") => usage'[p] = usage[p]
          /\ (\A t \in 1 .. Len(tasks[p]) : ~Returns(p, t) /\ ~Fails(p, t)) =>
                usage'[p] = usage[p]]_vars

\* C13 witness: the answer for the page did not parse and its counts have
\* been added.
C13_Witness ==
    \E p \in Procs :
        /\ pc[p] = "map"
        /\ Len(tasks[p]) = 1
        /\ tasks[p][1].st = "sleeping"
        /\ tasks[p][1].exc = "parse"
        /\ usage[p].output > 0
        /\ usage[p].cached > 0

\* ------------------------------------------------------------ stage order
\* Every coroutine of the running stage has returned.
StageOver(p) == \A t \in 1 .. Len(tasks[p]) : tasks[p][t].st = "done"
\* A remote call of instance p is in flight.
InFlight(p) == \E t \in 1 .. Len(tasks[p]) : tasks[p][t].st = "calling"

\* C14: in every step of a run, the first remote call comes after the
\* insertion; the map stage is left only for the gather stage, with one
\* returned task per page; the gather stage only for the merge stage, with one
\* returned task per key of sections; the merge stage only for remove_line,
\* with its one task returned; the identity the run inserted leaves the store
\* only in the run's own remove_line, after the print; and it is in the store
\* while a call is in flight.
C14_StagesInOrder ==
    [][\A p \in Procs :
          /\ (called'[p] /\ ~called[p]) => (pc[p] \in StagePcs /\ LineExists(store, ident[p]))
          /\ (pc[p] = "map" /\ pc'[p] # "map") =>
                (pc'[p] = "gather" /\ StageOver(p) /\ Len(tasks[p]) = Len(document[p]))
          /\ (pc[p] = "gather" /\ pc'[p] # "gather") =>
                (pc'[p] = "merge" /\ StageOver(p) /\ Len(tasks[p]) = Len(sections[p]))
          /\ (pc[p] = "merge" /\ pc'[p] # "merge") =>
                (pc'[p] = "rm_lock" /\ StageOver(p) /\ Len(tasks[p]) = 1)
          /\ (Outstanding(p) /\ LineExists(store, ident[p]) /\ ~LineExists(store', ident[p])) =>
                (pc[p] = "rm_trunc" /\ Len(emitted[p]) = 1)
          /\ InFlight(p)' => (pc'[p] \in StagePcs /\ LineExists(store', ident[p]))]_vars

\* C14 witness: a run over two pages has gone through the three stages and
\* removed its identity.
C14_Witness ==
    \E p \in Procs :
        /\ pc[p] = "done"
        /\ called[p]
        /\ Len(results[p]) = 2
        /\ Len(gathered[p]) = Cardinality(Topics)
        /\ Len(emitted[p]) = 1
        /\ ~LineExists(store, ident[p])

\* ------------------------------------------------------------ crash, waiting
\* The instance is inside _lock: about to open the marker 'x', or polling.
Trying(p) == pc[p] \in LockPcs \cup WaitPcs

\* C15: although instances may stop inside guard operations, an instance that
\* has started a guard operation and does not stop itself gets the marker (and
\* with it completes the operation).
C15_CrashTolerant ==
    \A p \in Procs : Trying(p) ~> (pc[p] \in HeldPcs \/ pc[p] = "crashed")

\* C16: whenever the marker is absent and some instance is inside _lock, some
\* instance gets the marker.  (No more holds: C16_NoStarvation below.)
C16_SomeoneAcquires ==
    (~lockFile /\ \E p \in Procs : Trying(p)) ~> (\E p \in Procs : pc[p] \in HeldPcs)

\* C16 witness: an instance polls for a marker that is gone while another
\* instance is about to create it again: the poller can be overtaken.
C16_Witness ==
    \E p, q \in Procs :
        /\ p # q
        /\ pc[p] \in WaitPcs
        /\ ~lockFile
        /\ pc[q] \in LockPcs
        /\ pc[q] # "chk_lock"

\* Every instance inside _lock gets the marker.  This does not hold under
\* SpecAgain: the behaviour that violates it is the starvation C16 says there
\* is, one instance conflicting and polling forever while the others create
\* and remove the marker for ever.
C16_NoStarvation ==
    \A p \in Procs : Trying(p) ~> (pc[p] \in HeldPcs)

\* ------------------------------------------------------- failure, release
\* The instance is past its admission and has not ended.
RunningPcs == {"add_lock", "add_wait", "add_write"} \cup InsertedPcs
                 \cup {"rm_trunc", "rm_write", "rm_unlock"}

\* A remove_line has emptied the store and not yet written the kept lines
\* back (it holds the marker: no guard operation reads the store meanwhile).
Rewriting == \E q \in Procs : pc[q] = "rm_write"

\* C17: once a run has failed after its insertion, its identity is in the
\* store in every later state (but inside the rewrite of another release),
\* every check_exists for that identity finds it, and no instance of that
\* identity is past its admission.
C17_StaleIdentityDenies ==
    \A p \in Procs :
        pc[p] = "failed" =>
            /\ ~Rewriting => LineExists(store, ident[p])
            /\ \A q \in Procs \ {p} :
                  SameDocument(p, q) =>
                      /\ pc[q] = "chk_unlock" => exists[q]
                      /\ pc[q] \notin RunningPcs

\* C17 witness: read_document failed for one instance, and a later instance
\* of the same document was denied.
C17_Witness ==
    \E p, q \in Procs :
        /\ p # q
        /\ SameDocument(p, q)
        /\ pc[p] = "failed"
        /\ pc[q] = "aborted"
        /\ LineExists(store, ident[p])

\* -------------------------------------------------------- reduce by topic
\* The second gather of main has returned.
PostGatherPcs == PostMapPcs \ {"gather"}

\* The gather stage runs one gather_content coroutine per topic, the j-th for
\* the j-th key of sections.
OneTaskPerTopic(p) ==
    /\ Len(tasks[p]) = Cardinality(Topics)
    /\ Len(sections[p]) = Len(tasks[p])
    /\ { sections[p][j].key : j \in 1 .. Len(tasks[p]) } = Topics

\* gathered_sections has exactly the topics as keys, each once.
TopicsGathered(p) ==
    /\ Keys(gathered[p]) = Topics
    /\ Len(gathered[p]) = Cardinality(Topics)

\* C18 as stated: for every document the gather stage runs one coroutine per
\* topic, and gathered_sections has exactly the topics as its keys.
C18_OneMergePerTopic ==
    \A p \in Procs :
        /\ pc[p] = "gather" => OneTaskPerTopic(p)
        /\ pc[p] \in PostGatherPcs => TopicsGathered(p)

\* C18 amended: that holds for every document with at least one page; for the
\* document without pages the gather stage runs no coroutine and
\* gathered_sections has no key.
C18_OneMergePerTopicOfPages ==
    \A p \in Procs :
        /\ pc[p] = "gather" =>
              IF Len(document[p]) = 0 THEN tasks[p] = <<>> ELSE OneTaskPerTopic(p)
        /\ pc[p] \in PostGatherPcs =>
              IF Len(document[p]) = 0 THEN gathered[p] = <<>> ELSE TopicsGathered(p)

\* C18 witness: the five coroutines of a two-page document have returned, one
\* of them empty-handed, and merge_sections has been handed all five topics.
C18_Witness ==
    \E p \in Procs :
        /\ pc[p] = "merge"
        /\ Len(document[p]) = 2
        /\ TopicsGathered(p)
        /\ Get(gathered[p], "introduction") = GatherText("introduction")
        /\ Get(gathered[p], "discussion") = EmptyText

\* ------------------------------------------------------- release, insertion
\* The entries of ls for identities other than x, in their order.
RECURSIVE Without(_, _)
Without(ls, x) ==
    IF ls = <<>> THEN <<>>
    ELSE IF Strip(Head(ls)) = Strip(x) THEN Without(Tail(ls), x)
    ELSE <<Head(ls)>> \o Without(Tail(ls), x)

\* C19: remove_line reads the whole store and writes back its entries for
\* other identities, in their order, and none for its own identity however
\* many there were; when there was none it writes back what it read; add_line
\* keeps every entry and puts the stripped identity after them.
C19_ReleaseFrame ==
    [][\A p \in Procs :
          /\ (pc[p] = "rm_read" /\ pc'[p] = "rm_trunc") =>
                (lines'[p] = store /\ store' = store)
          /\ (pc[p] = "rm_write" /\ pc'[p] = "rm_unlock") =>
                /\ store' = Without(lines[p], ident[p])
                /\ ~LineExists(store', ident[p])
                /\ ~LineExists(lines[p], ident[p]) => store' = lines[p]
          /\ (pc[p] = "add_write" /\ pc'[p] = "add_unlock") =>
                /\ Len(store') = Len(store) + 1
                /\ SubSeq(store', 1, Len(store)) = store
                /\ store'[Len(store')] = Strip(ident[p])]_vars

\* C19 witness: a release found its identity twice in the store and has
\* written back a store without it.
C19_Witness ==
    \E p \in Procs :
        /\ pc[p] = "rm_unlock"
        /\ Len(lines[p]) = 2
        /\ \A i \in 1 .. 2 : Strip(lines[p][i]) = Strip(ident[p])
        /\ store = <<>>

\* C20: the identity of an instance that has inserted it and has not begun
\* its own release is in the store (but inside the rewrite of another
\* release, which holds the marker).
C20_InsertedStaysPresent ==
    \A p \in Procs :
        (pc[p] \in InsertedPcs /\ ~Rewriting) => LineExists(store, ident[p])

====
